---- MODULE Spec2Model ----
(***************************************************************************)
(* Model of the lazy columnar view layer of velox/expression:              *)
(*   VectorReaders.h     - VectorReader<T> for scalar, Map, Array, Row,    *)
(*                         Variadic and Generic shapes and the two-phase   *)
(*                         null protocol (setChildrenMayHaveNulls, then    *)
(*                         containsNull / mayHaveNullsRecursive);          *)
(*   ComplexViewTypes.h  - IndexBasedIterator, OptionalVectorValueAccessor,*)
(*                         ArrayView, MapView.                             *)
(*                                                                         *)
(* A reader tree is a record; the C arrays (nulls, indices, offsets,       *)
(* lengths) are functions over 0..n-1, child readers are a sequence.       *)
(* A call's outcome is a record [err, val]: err = "none" when the call     *)
(* returned val, "dcheck" when a VELOX_DCHECK / DCHECK failed, and         *)
(* "unsupported" when VELOX_UNSUPPORTED threw.                             *)
(***************************************************************************)
EXTENDS Integers, Sequences, FiniteSets, TLC

VARIABLES
    reader,     \* the root VectorReader with everything it owns (memo slots included)
    dcheck,     \* TRUE in a build where VELOX_DCHECK / DCHECK are compiled in
    phase,      \* "constructed", then "setDone" once setChildrenMayHaveNulls() has
                \* returned on the root, or "setThrew" once it has thrown
    mapsData,   \* the rows a test map column was built from (MapViewTest::mapsData)
    iter,       \* the iterator of a loop the caller is running over a view of the
                \* reader, with what its last ++ returned; NoIterator outside a loop
    last        \* the call just made on the root: [op, a, b, out], a and b its arguments
                \* (for setChildrenMayHaveNulls, a = 1 when it was called before);
                \* NoCall between calls

vars == <<reader, dcheck, phase, mapsData, iter, last>>

-----------------------------------------------------------------------------
(* Bounds of the model.                                                    *)

\* logical and physical rows of a top-level column
NumRows == 2
\* elements of the child column of an Array or Map
NumElems == 2
\* trailing arguments of a Variadic reader
MaxArgs == 2
\* total number of entries of a test map column
MaxEntries == 3

Rows == 0 .. NumRows - 1

-----------------------------------------------------------------------------
(* Outcomes of a call.                                                     *)

Ok(b) == [err |-> "none", val |-> b]
Fail(e) == [err |-> e, val |-> FALSE]
\* the call did not return FALSE: it returned TRUE or it threw
Stops(c) == c.err # "none" \/ c.val

\* std::optional<bool>: a memo slot
Unset == [has_value |-> FALSE, value |-> FALSE]
Some(b) == [has_value |-> TRUE, value |-> b]

\* *memo. Dereferencing an empty optional is undefined behaviour: the read
\* yields g, an arbitrary bit chosen by the caller of the model's operators.
Deref(opt, g) == IF opt.has_value THEN opt.value ELSE g

-----------------------------------------------------------------------------
(* The Decoded Source (DecodedVector, consumed through its interface).     *)

isNullAt(decoded, i) == decoded.nulls[i]
indexOf(decoded, i) == decoded.indices[i]
valueAt(decoded, i) == decoded.values[i]
mayHaveNulls(decoded) == decoded.mayHaveNulls

-----------------------------------------------------------------------------
(* Readers. One record shape for every specialization.                     *)

Node(kind, decoded, offsets, lengths, children) ==
    [kind |-> kind, decoded |-> decoded, offsets |-> offsets,
     lengths |-> lengths, children |-> children,
     keysMayHaveNulls_ |-> Unset, valuesMayHaveNulls_ |-> Unset]

NoDecoded == [nulls |-> << >>, indices |-> << >>, values |-> << >>,
              mayHaveNulls |-> FALSE]

ScalarReader(decoded) == Node("Scalar", decoded, << >>, << >>, << >>)
GenericReader(decoded) == Node("Generic", decoded, << >>, << >>, << >>)
ArrayReader(decoded, layout, child) ==
    Node("Array", decoded, layout.offsets, layout.lengths, <<child>>)
MapReader(decoded, layout, keys, vals) ==
    Node("Map", decoded, layout.offsets, layout.lengths, <<keys, vals>>)
RowReader(decoded, fields) == Node("Row", decoded, << >>, << >>, fields)
VariadicReader(args) == Node("Variadic", NoDecoded, << >>, << >>, args)

keyReader_(r) == r.children[1]
valReader_(r) == r.children[2]
childReader_(r) == r.children[1]

-----------------------------------------------------------------------------
(* DecodedVector::mayHaveNullsRecursive(), which VectorReader<Row> calls:  *)
(* the flag of the column itself or of any column below it. It is read     *)
(* from the vectors, never from the readers' memo slots.                   *)

RECURSIVE DecodedMayHaveNullsRecursive(_)
DecodedMayHaveNullsRecursive(r) ==
    \/ r.kind # "Variadic" /\ mayHaveNulls(r.decoded)
    \/ \E k \in 1 .. Len(r.children) : DecodedMayHaveNullsRecursive(r.children[k])

-----------------------------------------------------------------------------
(* Phase 2: containsNull(index), containsNull(startIndex, endIndex).       *)

\* VELOX_DCHECK(memo.has_value() ...) of the Map and Array readers
MemoSet(r) ==
    IF r.kind = "Map"
    THEN r.keysMayHaveNulls_.has_value /\ r.valuesMayHaveNulls_.has_value
    ELSE r.valuesMayHaveNulls_.has_value

RECURSIVE ContainsNull(_, _, _)
RECURSIVE ContainsNullRange(_, _, _, _)
RECURSIVE RangeLoop(_, _, _, _)
RECURSIVE RowFields(_, _, _, _)
RECURSIVE VariadicArgs(_, _, _, _)
RECURSIVE VariadicArgsRange(_, _, _, _, _)

\* for (auto index = startIndex; index < endIndex; ++index)
\*   if (containsNull(index)) return true;
RangeLoop(r, index, endIndex, g) ==
    IF index >= endIndex THEN Ok(FALSE)
    ELSE LET c == ContainsNull(r, index, g)
         IN  IF Stops(c) THEN c ELSE RangeLoop(r, index + 1, endIndex, g)

\* RowFields with | for ||: every field is tested
RowFields_Eager(r, k, decodedIndex, g) ==
    IF k > Len(r.children) THEN Ok(FALSE)
    ELSE LET c == ContainsNull(r.children[k], decodedIndex, g)
             rest == RowFields(r, k + 1, decodedIndex, g)
         IN  IF c.err # "none" THEN c
             ELSE IF rest.err # "none" THEN rest
             ELSE Ok(c.val \/ rest.val)

\* (reader->containsNull(decodedIndex) || ...) over the fields from field k on
RowFields(r, k, decodedIndex, g) ==
    IF k > Len(r.children) THEN Ok(FALSE)
    ELSE LET c == ContainsNull(r.children[k], decodedIndex, g)
         IN  IF Stops(c) THEN c ELSE RowFields(r, k + 1, decodedIndex, g)

\* VariadicArgs returning what the first child it meets says
VariadicArgs_FirstOnly(r, k, index, g) ==
    IF k > Len(r.children) THEN Ok(FALSE)
    ELSE ContainsNull(r.children[k], index, g)

\* for (const auto& childReader : childReaders_)
\*   if (childReader->containsNull(index)) return true;
VariadicArgs(r, k, index, g) ==
    IF k > Len(r.children) THEN Ok(FALSE)
    ELSE LET c == ContainsNull(r.children[k], index, g)
         IN  IF Stops(c) THEN c ELSE VariadicArgs(r, k + 1, index, g)

VariadicArgsRange(r, k, startIndex, endIndex, g) ==
    IF k > Len(r.children) THEN Ok(FALSE)
    ELSE LET c == ContainsNullRange(r.children[k], startIndex, endIndex, g)
         IN  IF Stops(c) THEN c
             ELSE VariadicArgsRange(r, k + 1, startIndex, endIndex, g)

\* MapContainsNull without its VELOX_DCHECK
MapContainsNull_NoDcheck(r, index, g) ==
    LET decodedIndex == indexOf(r.decoded, index)
        from == r.offsets[decodedIndex]
        to == r.offsets[decodedIndex] + r.lengths[decodedIndex]
    IN  IF isNullAt(r.decoded, index) THEN Ok(TRUE)
        ELSE LET k == IF Deref(r.keysMayHaveNulls_, g)
                      THEN ContainsNullRange(keyReader_(r), from, to, g)
                      ELSE Ok(FALSE)
             IN  IF Stops(k) THEN k
                 ELSE IF Deref(r.valuesMayHaveNulls_, g)
                      THEN ContainsNullRange(valReader_(r), from, to, g)
                      ELSE Ok(FALSE)

\* MapContainsNull reading offsets_ and lengths_ at the logical index
MapContainsNull_LogicalIndex(r, index, g) ==
    IF dcheck /\ ~MemoSet(r) THEN Fail("dcheck")
    ELSE LET from == r.offsets[index]
             to == r.offsets[index] + r.lengths[index]
         IN  IF isNullAt(r.decoded, index) THEN Ok(TRUE)
             ELSE LET k == IF Deref(r.keysMayHaveNulls_, g)
                           THEN ContainsNullRange(keyReader_(r), from, to, g)
                           ELSE Ok(FALSE)
                  IN  IF Stops(k) THEN k
                      ELSE IF Deref(r.valuesMayHaveNulls_, g)
                           THEN ContainsNullRange(valReader_(r), from, to, g)
                           ELSE Ok(FALSE)

\* VectorReader<Map<K, V>>::containsNull(index)
MapContainsNull(r, index, g) ==
    IF dcheck /\ ~MemoSet(r) THEN Fail("dcheck")
    ELSE LET decodedIndex == indexOf(r.decoded, index)
             from == r.offsets[decodedIndex]
             to == r.offsets[decodedIndex] + r.lengths[decodedIndex]
         IN  IF isNullAt(r.decoded, index) THEN Ok(TRUE)
             ELSE LET k == IF Deref(r.keysMayHaveNulls_, g)
                           THEN ContainsNullRange(keyReader_(r), from, to, g)
                           ELSE Ok(FALSE)
                  IN  IF Stops(k) THEN k
                      ELSE IF Deref(r.valuesMayHaveNulls_, g)
                           THEN ContainsNullRange(valReader_(r), from, to, g)
                           ELSE Ok(FALSE)

\* ArrayContainsNull without the test of the row's own null
ArrayContainsNull_NoOwnNull(r, index, g) ==
    IF dcheck /\ ~MemoSet(r) THEN Fail("dcheck")
    ELSE LET decodedIndex == indexOf(r.decoded, index)
             from == r.offsets[decodedIndex]
             to == r.offsets[decodedIndex] + r.lengths[decodedIndex]
         IN  IF Deref(r.valuesMayHaveNulls_, g)
             THEN ContainsNullRange(childReader_(r), from, to, g)
             ELSE Ok(FALSE)

\* VectorReader<Array<V>>::containsNull(index)
ArrayContainsNull(r, index, g) ==
    IF dcheck /\ ~MemoSet(r) THEN Fail("dcheck")
    ELSE LET decodedIndex == indexOf(r.decoded, index)
             from == r.offsets[decodedIndex]
             to == r.offsets[decodedIndex] + r.lengths[decodedIndex]
         IN  IF isNullAt(r.decoded, index) THEN Ok(TRUE)
             ELSE IF Deref(r.valuesMayHaveNulls_, g)
                  THEN ContainsNullRange(childReader_(r), from, to, g)
                  ELSE Ok(FALSE)

\* VectorReader<Row<T...>>::containsNull(index)
RowContainsNull(r, index, g) ==
    IF isNullAt(r.decoded, index) THEN Ok(TRUE)
    ELSE RowFields(r, 1, indexOf(r.decoded, index), g)

\* VectorReader<Variadic<T>>::containsNull(index)
VariadicContainsNull(r, index, g) == VariadicArgs(r, 1, index, g)

\* VectorReader<T>::containsNull(index)
ScalarContainsNull(r, index) == Ok(isNullAt(r.decoded, index))

\* GenericContainsNull answering instead of throwing
GenericContainsNull_Degraded(r) == Ok(FALSE)

\* VectorReader<Generic<T>>::containsNull, both overloads
GenericContainsNull(r) == Fail("unsupported")

ContainsNull(r, index, g) ==
    CASE r.kind = "Scalar" -> ScalarContainsNull(r, index)
      [] r.kind = "Map" -> MapContainsNull(r, index, g)
      [] r.kind = "Array" -> ArrayContainsNull(r, index, g)
      [] r.kind = "Row" -> RowContainsNull(r, index, g)
      [] r.kind = "Variadic" -> VariadicContainsNull(r, index, g)
      [] r.kind = "Generic" -> GenericContainsNull(r)

ContainsNullRange(r, startIndex, endIndex, g) ==
    CASE r.kind = "Variadic" -> VariadicArgsRange(r, 1, startIndex, endIndex, g)
      [] r.kind = "Generic" -> GenericContainsNull(r)
      [] OTHER -> RangeLoop(r, startIndex, endIndex, g)

-----------------------------------------------------------------------------
(* Phase 2: mayHaveNullsRecursive().                                       *)

RECURSIVE MayHaveNullsRecursive(_, _)
RECURSIVE VariadicMayHaveNulls(_, _, _)

VariadicMayHaveNulls(r, k, g) ==
    IF k > Len(r.children) THEN Ok(FALSE)
    ELSE LET c == MayHaveNullsRecursive(r.children[k], g)
         IN  IF Stops(c) THEN c ELSE VariadicMayHaveNulls(r, k + 1, g)

\* VectorReader<Map<K, V>>::mayHaveNullsRecursive()
MapMayHaveNullsRecursive(r, g) ==
    IF dcheck /\ ~MemoSet(r) THEN Fail("dcheck")
    ELSE Ok(\/ mayHaveNulls(r.decoded)
            \/ Deref(r.keysMayHaveNulls_, g)
            \/ Deref(r.valuesMayHaveNulls_, g))

\* ArrayMayHaveNullsRecursive without the memo of the elements
ArrayMayHaveNullsRecursive_OwnOnly(r, g) ==
    IF dcheck /\ ~MemoSet(r) THEN Fail("dcheck")
    ELSE Ok(mayHaveNulls(r.decoded))

\* VectorReader<Array<V>>::mayHaveNullsRecursive()
ArrayMayHaveNullsRecursive(r, g) ==
    IF dcheck /\ ~MemoSet(r) THEN Fail("dcheck")
    ELSE Ok(mayHaveNulls(r.decoded) \/ Deref(r.valuesMayHaveNulls_, g))

\* VectorReader<Row<T...>>::mayHaveNullsRecursive()
RowMayHaveNullsRecursive(r) == Ok(DecodedMayHaveNullsRecursive(r))

\* VectorReader<T>::mayHaveNullsRecursive()
ScalarMayHaveNullsRecursive(r) == Ok(mayHaveNulls(r.decoded))

\* VectorReader<Generic<T>>::mayHaveNullsRecursive()
GenericMayHaveNullsRecursive(r) == Fail("unsupported")

MayHaveNullsRecursive(r, g) ==
    CASE r.kind = "Scalar" -> ScalarMayHaveNullsRecursive(r)
      [] r.kind = "Map" -> MapMayHaveNullsRecursive(r, g)
      [] r.kind = "Array" -> ArrayMayHaveNullsRecursive(r, g)
      [] r.kind = "Row" -> RowMayHaveNullsRecursive(r)
      [] r.kind = "Variadic" -> VariadicMayHaveNulls(r, 1, g)
      [] r.kind = "Generic" -> GenericMayHaveNullsRecursive(r)

-----------------------------------------------------------------------------
(* Phase 1: setChildrenMayHaveNulls(). The outcome is [err, reader]: the   *)
(* reader as the call left it, also when the call threw half way.          *)

RECURSIVE SetChildrenMayHaveNulls(_, _)
RECURSIVE SetEach(_, _, _)

\* (reader->setChildrenMayHaveNulls(), ...) and the Variadic loop: the
\* children in order from child k on, up to the first one that throws
SetEach(children, k, g) ==
    IF k > Len(children) THEN [err |-> "none", children |-> children]
    ELSE LET c == SetChildrenMayHaveNulls(children[k], g)
             done == [children EXCEPT ![k] = c.reader]
         IN  IF c.err # "none" THEN [err |-> c.err, children |-> done]
             ELSE SetEach(done, k + 1, g)

\* MapSetChildrenMayHaveNulls filling both memos from the key reader
MapSetChildrenMayHaveNulls_KeysTwice(r, g) ==
    LET s == SetEach(r.children, 1, g)
        r1 == [r EXCEPT !.children = s.children]
        km == MayHaveNullsRecursive(keyReader_(r1), g)
        r2 == [r1 EXCEPT !.keysMayHaveNulls_ = Some(km.val)]
        r3 == [r2 EXCEPT !.valuesMayHaveNulls_ = Some(km.val)]
    IN  IF s.err # "none" THEN [err |-> s.err, reader |-> r1]
        ELSE IF km.err # "none" THEN [err |-> km.err, reader |-> r1]
        ELSE [err |-> "none", reader |-> r3]

\* VectorReader<Map<K, V>>::setChildrenMayHaveNulls()
MapSetChildrenMayHaveNulls(r, g) ==
    LET s == SetEach(r.children, 1, g)
        r1 == [r EXCEPT !.children = s.children]
        km == MayHaveNullsRecursive(keyReader_(r1), g)
        r2 == [r1 EXCEPT !.keysMayHaveNulls_ = Some(km.val)]
        vm == MayHaveNullsRecursive(valReader_(r1), g)
        r3 == [r2 EXCEPT !.valuesMayHaveNulls_ = Some(vm.val)]
    IN  IF s.err # "none" THEN [err |-> s.err, reader |-> r1]
        ELSE IF km.err # "none" THEN [err |-> km.err, reader |-> r1]
        ELSE IF vm.err # "none" THEN [err |-> vm.err, reader |-> r2]
        ELSE [err |-> "none", reader |-> r3]

\* ArraySetChildrenMayHaveNulls with its two statements swapped: the memo is
\* filled before the child reader has filled its own
ArraySetChildrenMayHaveNulls_MemoFirst(r, g) ==
    LET vm == MayHaveNullsRecursive(childReader_(r), g)
        s == SetEach(r.children, 1, g)
        r1 == [r EXCEPT !.valuesMayHaveNulls_ = Some(vm.val)]
        r2 == [r1 EXCEPT !.children = s.children]
    IN  IF vm.err # "none" THEN [err |-> vm.err, reader |-> r]
        ELSE [err |-> s.err, reader |-> r2]

\* VectorReader<Array<V>>::setChildrenMayHaveNulls()
ArraySetChildrenMayHaveNulls(r, g) ==
    LET s == SetEach(r.children, 1, g)
        r1 == [r EXCEPT !.children = s.children]
        vm == MayHaveNullsRecursive(childReader_(r1), g)
        r2 == [r1 EXCEPT !.valuesMayHaveNulls_ = Some(vm.val)]
    IN  IF s.err # "none" THEN [err |-> s.err, reader |-> r1]
        ELSE IF vm.err # "none" THEN [err |-> vm.err, reader |-> r1]
        ELSE [err |-> "none", reader |-> r2]

\* setChildrenMayHaveNulls() of a Row or Variadic reader that does not
\* descend into its children
ChildrenSetChildrenMayHaveNulls_NoDescent(r, g) == [err |-> "none", reader |-> r]

\* VectorReader<Row<T...>>::setChildrenMayHaveNulls() and
\* VectorReader<Variadic<T>>::setChildrenMayHaveNulls()
ChildrenSetChildrenMayHaveNulls(r, g) ==
    LET s == SetEach(r.children, 1, g)
    IN  [err |-> s.err, reader |-> [r EXCEPT !.children = s.children]]

\* VectorReader<Generic<T>>::setChildrenMayHaveNulls()
GenericSetChildrenMayHaveNulls(r) == [err |-> "unsupported", reader |-> r]

\* VectorReader<T>::setChildrenMayHaveNulls(): a no-op
ScalarSetChildrenMayHaveNulls(r) == [err |-> "none", reader |-> r]

SetChildrenMayHaveNulls(r, g) ==
    CASE r.kind = "Scalar" -> ScalarSetChildrenMayHaveNulls(r)
      [] r.kind = "Map" -> MapSetChildrenMayHaveNulls(r, g)
      [] r.kind = "Array" -> ArraySetChildrenMayHaveNulls(r, g)
      [] r.kind \in {"Row", "Variadic"} -> ChildrenSetChildrenMayHaveNulls(r, g)
      [] r.kind = "Generic" -> GenericSetChildrenMayHaveNulls(r)

\* isSet(offset) of every specialization
IsSet(r, offset) ==
    IF r.kind = "Variadic" THEN TRUE ELSE ~isNullAt(r.decoded, offset)

-----------------------------------------------------------------------------
(* ComplexViewTypes.h. A view or accessor holds the reader it points to    *)
(* and an index; a std::optional is a record [has_value, value].           *)

Nullopt == [has_value |-> FALSE, value |-> 0]
Optional(v) == [has_value |-> TRUE, value |-> v]

\* ArrayView(reader, offset, size) and MapView(keyReader, valueReader, offset, size)
ArrayView(rd, offset, size) ==
    [view |-> "ArrayView", reader_ |-> rd, offset_ |-> offset, size_ |-> size]
MapView(keyReader, valueReader, offset, size) ==
    [view |-> "MapView", keyReader_ |-> keyReader, valueReader_ |-> valueReader,
     offset_ |-> offset, size_ |-> size]

\* operator[] taking the window of the logical row, not of decoded_.index(row)
ReadAt_LogicalRow(r, offset) ==
    CASE r.kind = "Map" ->
            MapView(keyReader_(r), valReader_(r), r.offsets[offset], r.lengths[offset])
      [] r.kind = "Array" ->
            ArrayView(childReader_(r), r.offsets[offset], r.lengths[offset])
      [] r.kind = "Scalar" -> valueAt(r.decoded, offset)
      [] r.kind = "Row" ->
            [view |-> "RowView", childReaders_ |-> r.children,
             index_ |-> indexOf(r.decoded, offset)]
      [] r.kind = "Variadic" ->
            [view |-> "VariadicView", childReaders_ |-> r.children,
             index_ |-> offset]
      [] r.kind = "Generic" ->
            [view |-> "GenericView", index_ |-> indexOf(r.decoded, offset)]

\* reader[offset] of every specialization
ReadAt(r, offset) ==
    CASE r.kind = "Scalar" -> valueAt(r.decoded, offset)
      [] r.kind = "Map" ->
            LET index == indexOf(r.decoded, offset)
            IN  MapView(keyReader_(r), valReader_(r),
                        r.offsets[index], r.lengths[index])
      [] r.kind = "Array" ->
            LET index == indexOf(r.decoded, offset)
            IN  ArrayView(childReader_(r), r.offsets[index], r.lengths[index])
      [] r.kind = "Row" ->
            [view |-> "RowView", childReaders_ |-> r.children,
             index_ |-> indexOf(r.decoded, offset)]
      [] r.kind = "Variadic" ->
            [view |-> "VariadicView", childReaders_ |-> r.children,
             index_ |-> offset]
      [] r.kind = "Generic" ->
            [view |-> "GenericView", index_ |-> indexOf(r.decoded, offset)]

\* reader.readNullFree(offset) of every specialization
ReadNullFree(r, offset) ==
    CASE r.kind = "Scalar" -> valueAt(r.decoded, offset)
      [] r.kind = "Map" ->
            LET index == indexOf(r.decoded, offset)
            IN  MapView(keyReader_(r), valReader_(r),
                        r.offsets[index], r.lengths[index])
      [] r.kind = "Array" ->
            LET index == indexOf(r.decoded, offset)
            IN  ArrayView(childReader_(r), r.offsets[index], r.lengths[index])
      [] r.kind = "Row" ->
            [view |-> "RowView", childReaders_ |-> r.children,
             index_ |-> indexOf(r.decoded, offset)]
      [] r.kind = "Variadic" ->
            [view |-> "VariadicView", childReaders_ |-> r.children,
             index_ |-> offset]
      [] r.kind = "Generic" -> ReadAt(r, offset)

\* OptionalVectorValueAccessor<T>(reader, index)
OptionalVectorValueAccessor(rd, index) == [reader_ |-> rd, index_ |-> index]

\* has_value() that never consults the reader
has_value_Always(acc) == TRUE

\* OptionalVectorValueAccessor::has_value()
has_value(acc) == IsSet(acc.reader_, acc.index_)

\* value() without the DCHECK
AccessorValue_Unchecked(acc) ==
    [err |-> "none", val |-> ReadAt(acc.reader_, acc.index_)]

\* OptionalVectorValueAccessor::value() and operator*(): [err, val]
AccessorValue(acc) ==
    IF dcheck /\ ~has_value(acc) THEN [err |-> "dcheck", val |-> 0]
    ELSE [err |-> "none", val |-> ReadAt(acc.reader_, acc.index_)]

\* OptionalVectorValueAccessor::operator std::optional<element_t>()
ToOptional(acc) ==
    IF ~has_value(acc) THEN Nullopt ELSE Optional(AccessorValue(acc).val)

\* operator== comparing the positions of the accessors, as iterators do
AccessorEquals_ByIndex(a, b) == a.index_ = b.index_

\* OptionalVectorValueAccessor::operator==(const OptionalVectorValueAccessor&)
AccessorEquals(a, b) ==
    IF has_value(b) # has_value(a) THEN FALSE
    ELSE IF has_value(a) THEN AccessorValue(a).val = AccessorValue(b).val
    ELSE TRUE

\* OptionalVectorValueAccessor::operator!=(const OptionalVectorValueAccessor&)
AccessorNotEquals(a, b) == ~AccessorEquals(a, b)

\* A native std::optional<T>: the optional, and T ("int64_t" or "float")
NativeOptional(type, opt) == [type |-> type, opt |-> opt]

\* int64_t to float, as lhs.value() == rhs.value() converts the accessor's
\* value when T is float: 24 bits of mantissa; a value between two floats
\* goes to either neighbour, up or down as the build rounds
ToFloat(v, up) ==
    LET exact == 16777216
    IN  IF v <= exact \/ v % 2 = 0 THEN v ELSE IF up THEN v + 1 ELSE v - 1

\* lhs.value() == rhs.value() for lhs of type T and the int64_t rhs
ValueEquals(type, x, v, up) ==
    IF type = "float" THEN x = ToFloat(v, up) ELSE x = v

\* operator==(optional, accessor) that ignores which side is absent
OptionalEqualsAccessor_ValueOnly(lhs, rhs, up) ==
    ValueEquals(lhs.type, lhs.opt.value, ReadAt(rhs.reader_, rhs.index_), up)

\* operator==(const std::optional<T>&, const OptionalVectorValueAccessor<U>&)
OptionalEqualsAccessor(lhs, rhs, up) ==
    IF lhs.opt.has_value # has_value(rhs) THEN FALSE
    ELSE IF lhs.opt.has_value
         THEN ValueEquals(lhs.type, lhs.opt.value, AccessorValue(rhs).val, up)
         ELSE TRUE

\* operator==(const OptionalVectorValueAccessor<U>&, const std::optional<T>&)
AccessorEqualsOptional(lhs, rhs, up) == OptionalEqualsAccessor(rhs, lhs, up)

\* operator!=(optional, accessor) and operator!=(accessor, optional)
OptionalNotEqualsAccessor(lhs, rhs, up) == ~OptionalEqualsAccessor(lhs, rhs, up)
AccessorNotEqualsOptional(lhs, rhs, up) == ~AccessorEqualsOptional(lhs, rhs, up)

\* OptionalVectorValueAccessor::incrementIndex()
AccessorIncrementIndex(acc) == [acc EXCEPT !.index_ = @ + 1]

\* MapView::LazyKeyAccessor(reader, index) and its operator key_element_t()
LazyKeyAccessor(rd, index) == [reader_ |-> rd, index_ |-> index]
KeyOf(key) == ReadAt(key.reader_, key.index_)
KeyIncrementIndex(key) == [key EXCEPT !.index_ = @ + 1]

\* MapView::Element(keyReader, valueReader, index)
Element(keyReader, valueReader, index) ==
    [first |-> LazyKeyAccessor(keyReader, index),
     second |-> OptionalVectorValueAccessor(valueReader, index),
     index_ |-> index]

\* incrementIndex() moving the key and the index but not the value
ElementIncrementIndex_KeyOnly(e) ==
    [e EXCEPT !.index_ = @ + 1, !.first = KeyIncrementIndex(@)]

\* incrementIndex() moving the key and the value but not the index
ElementIncrementIndex_AccessorsOnly(e) ==
    [e EXCEPT !.first = KeyIncrementIndex(@),
              !.second = AccessorIncrementIndex(@)]

\* MapView::Element::incrementIndex()
ElementIncrementIndex(e) ==
    [e EXCEPT !.index_ = @ + 1,
              !.first = KeyIncrementIndex(@),
              !.second = AccessorIncrementIndex(@)]

\* MapView::LazyKeyAccessor::operator==
KeyEquals(a, b) == KeyOf(b) = KeyOf(a)

\* Element equality that compares positions, as iterators do
ElementEquals_ByIndex(a, b) == a.index_ = b.index_

\* MapView::Element::operator==(const Element&)
ElementEquals(a, b) ==
    KeyEquals(a.first, b.first) /\ AccessorEquals(a.second, b.second)

\* MapView::Element::operator!=
ElementNotEquals(a, b) == ~ElementEquals(a, b)

\* MapViewBegin starting at 0 instead of offset_
MapViewBegin_NoOffset(v) == Element(v.keyReader_, v.valueReader_, 0)

\* MapView::operator[](index), begin(), end(), size()
MapViewAt(v, index) == Element(v.keyReader_, v.valueReader_, index + v.offset_)
MapViewBegin(v) == Element(v.keyReader_, v.valueReader_, 0 + v.offset_)
\* end() one position past the window
MapViewEnd_OnePast(v) == Element(v.keyReader_, v.valueReader_, v.size_ + v.offset_ + 1)
MapViewEnd(v) == Element(v.keyReader_, v.valueReader_, v.size_ + v.offset_)

\* ArrayView::operator[](index) and at(index), begin(), end(), size()
ArrayViewAt(v, index) == OptionalVectorValueAccessor(v.reader_, index + v.offset_)
ArrayViewBegin(v) == OptionalVectorValueAccessor(v.reader_, v.offset_)
ArrayViewEnd(v) == OptionalVectorValueAccessor(v.reader_, v.offset_ + v.size_)

\* ArrayView::mayHaveNulls()
ArrayViewMayHaveNulls(v) == FALSE

ViewSize(v) == v.size_
ViewAt(v, index) ==
    IF v.view = "MapView" THEN MapViewAt(v, index) ELSE ArrayViewAt(v, index)
ViewBegin(v) == IF v.view = "MapView" THEN MapViewBegin(v) ELSE ArrayViewBegin(v)
ViewEnd(v) == IF v.view = "MapView" THEN MapViewEnd(v) ELSE ArrayViewEnd(v)

\* IndexBasedIterator<T>: the element it wraps; ++ calls incrementIndex(),
\* == and != compare index()
IteratorIncrement(element) ==
    IF "first" \in DOMAIN element THEN ElementIncrementIndex(element)
    ELSE AccessorIncrementIndex(element)
\* operator*() and operator->() give the wrapped element
IteratorDeref(element) == element

\* operator== that also wants the two iterators to wrap the same element of
\* the same container
IteratorEquals_SameContainer(a, b) == a = b

\* IndexBasedIterator::operator==, operator!=, operator<
IteratorEquals(a, b) == a.index_ = b.index_
IteratorNotEquals(a, b) == a.index_ # b.index_
IteratorLess(a, b) == a.index_ < b.index_

\* ++it: the iterator as the call leaves it, and the iterator the call
\* returns, which is a reference to the iterator itself
IteratorPreIncrement(it) ==
    [it |-> IteratorIncrement(it), returned |-> IteratorIncrement(it)]

\* it++ returning the iterator it has advanced
IteratorPostIncrement_ReturnsAdvanced(it) ==
    [it |-> IteratorPreIncrement(it).it, returned |-> IteratorPreIncrement(it).it]

\* it++: Iterator old = *this; ++*this; return old;
IteratorPostIncrement(it) ==
    [it |-> IteratorPreIncrement(it).it, returned |-> it]

\* an iterator after n applications of ++
RECURSIVE IteratorAdvance(_, _)
IteratorAdvance(it, n) ==
    IF n = 0 THEN it ELSE IteratorAdvance(IteratorIncrement(it), n - 1)

\* What a caller reads off one element, as MapViewTest does: the key (of a
\* map entry) and the value as an optional
Observe(element) ==
    IF "first" \in DOMAIN element
    THEN [first |-> KeyOf(element.first), second |-> ToOptional(element.second)]
    ELSE ToOptional(element)

\* the child positions an element reads: index_ of the accessor, or of the
\* map element, its key and its value
Positions(element) ==
    IF "first" \in DOMAIN element
    THEN {element.index_, element.first.index_, element.second.index_}
    ELSE {element.index_}

\* for (int j = 0; j < view.size(); j++) ... view[j] ...
RECURSIVE IndexedLoop(_, _, _)
IndexedLoop(v, j, seen) ==
    IF j < ViewSize(v)
    THEN IndexedLoop(v, j + 1, Append(seen, Observe(ViewAt(v, j))))
    ELSE seen

\* for (auto it = view.begin(); it != view.end(); ++it) ... *it ...
\* (the range-based for loop is this loop)
RECURSIVE IteratorLoop(_, _, _)
IteratorLoop(it, end, seen) ==
    IF IteratorNotEquals(it, end)
    THEN IteratorLoop(IteratorIncrement(it), end, Append(seen, Observe(it)))
    ELSE seen

\* for (const auto& entry : view) ... entry ...
\*   auto b = view.begin(), e = view.end(); for (; b != e; ++b) { entry = *b; }
RECURSIVE RangeForLoop(_, _, _)
RangeForLoop(b, e, seen) ==
    IF IteratorNotEquals(b, e)
    THEN RangeForLoop(IteratorIncrement(b), e,
                      Append(seen, Observe(IteratorDeref(b))))
    ELSE seen

\* reader[offset], and what the caller sees of the Array or Map view it
\* returns: mayHaveNulls() (of an Array view), size(), the window, and the
\* elements met by an indexed loop, an iterator loop and a range-for loop
ReadRow(r, offset) ==
    LET v == ReadAt(r, offset)
    IN  IF r.kind \in {"Map", "Array"}
        THEN [mayHaveNulls |-> r.kind = "Array" /\ ArrayViewMayHaveNulls(v),
              size |-> ViewSize(v),
              offset |-> v.offset_,
              at |-> [j \in 0 .. ViewSize(v) - 1 |-> Positions(ViewAt(v, j))],
              indexed |-> IndexedLoop(v, 0, << >>),
              iterated |-> IteratorLoop(ViewBegin(v), ViewEnd(v), << >>),
              ranged |-> RangeForLoop(ViewBegin(v), ViewEnd(v), << >>)]
        ELSE v

-----------------------------------------------------------------------------
(* The columns a reader can be built over.                                 *)

Identity(n) == [i \in 0 .. n - 1 |-> i]
\* flat and dictionary encodings of n logical rows over n physical rows:
\* the rows as stored, the rows in reverse, and every row reading the last
Encodings(n) ==
    {Identity(n), [i \in 0 .. n - 1 |-> n - 1 - i], [i \in 0 .. n - 1 |-> n - 1]}

\* the null rows of a column of n rows: none, one of them, or all of them
NullPatterns(n) ==
    {nl \in [0 .. n - 1 -> BOOLEAN] :
        \/ Cardinality({i \in 0 .. n - 1 : nl[i]}) <= 1
        \/ \A i \in 0 .. n - 1 : nl[i]}

\* Decoded sources of n logical rows. A source with a null row reports
\* mayHaveNulls(); one without may report either.
Sources(n, encodings) ==
    {d \in [nulls : NullPatterns(n), indices : encodings,
            values : {[i \in 0 .. n - 1 |-> 0]}, mayHaveNulls : BOOLEAN] :
        (\E i \in 0 .. n - 1 : d.nulls[i]) => d.mayHaveNulls}

FlatSources(n) == Sources(n, {Identity(n)})
NoNullSources(n) == {d \in FlatSources(n) : ~d.mayHaveNulls}

RECURSIVE SumTo(_, _)
SumTo(l, i) == IF i = 0 THEN 0 ELSE l[i - 1] + SumTo(l, i - 1)

\* rawOffsets() / rawSizes() of n rows over a child column of e elements:
\* consecutive windows, as the vector builders lay them out
Layouts(n, e) ==
    {[offsets |-> [i \in 0 .. n - 1 |-> SumTo(l, i)], lengths |-> l] :
        l \in {f \in [0 .. n - 1 -> 0 .. e] : SumTo(f, n) <= e}}

Scalars(n) == {ScalarReader(d) : d \in FlatSources(n)}
Generics(n) == {GenericReader(d) : d \in FlatSources(n)}

SeqsOf(S, k) == [1 .. k -> S]

\* row i holds element i alone, as far as there are elements
OnePerRow(n, e) ==
    [offsets |-> [i \in 0 .. n - 1 |-> IF i < e THEN i ELSE e],
     lengths |-> [i \in 0 .. n - 1 |-> IF i < e THEN 1 ELSE 0]]

\* the key and value columns of a map: nulls among the keys, among the
\* values, or at the same entries of both
KeysAndValues(e) ==
    {<<k, v>> \in Scalars(e) \X Scalars(e) :
        ~k.decoded.mayHaveNulls \/ ~v.decoded.mayHaveNulls \/ k = v}

Readers ==
    \* T
    Scalars(NumRows)
    \* Generic<T>
    \cup {GenericReader(d) : d \in Sources(NumRows, Encodings(NumRows))}
    \* Array<T>
    \cup {ArrayReader(d, lay, c) :
            d \in Sources(NumRows, Encodings(NumRows)),
            lay \in Layouts(NumRows, NumElems), c \in Scalars(NumElems)}
    \* Map<K, V>
    \cup {MapReader(d, lay, kv[1], kv[2]) :
            d \in Sources(NumRows, Encodings(NumRows)),
            lay \in Layouts(NumRows, NumElems), kv \in KeysAndValues(NumElems)}
    \* Array<Array<T>>
    \cup {ArrayReader(d, OnePerRow(NumRows, NumElems), ArrayReader(d2, lay2, c)) :
            d \in NoNullSources(NumRows),
            d2 \in FlatSources(NumElems), lay2 \in Layouts(NumElems, NumElems),
            c \in Scalars(NumElems)}
    \* Array<Generic<T>>
    \cup {ArrayReader(d, lay, c) :
            d \in FlatSources(NumRows), lay \in Layouts(NumRows, NumElems),
            c \in Generics(NumElems)}
    \* Row<T, T>
    \cup {RowReader(d, <<a, b>>) :
            d \in Sources(NumRows, Encodings(NumRows)),
            a \in Scalars(NumRows), b \in Scalars(NumRows)}
    \* Row<T, Generic<T>>
    \cup {RowReader(d, <<a, b>>) :
            d \in Sources(NumRows, Encodings(NumRows)),
            a \in Scalars(NumRows), b \in Generics(NumRows)}
    \* Row<T, Array<T>>
    \cup {RowReader(d, <<a, ArrayReader(d2, lay2, c)>>) :
            d \in NoNullSources(NumRows), a \in Scalars(NumRows),
            d2 \in NoNullSources(NumRows), lay2 \in Layouts(NumRows, NumElems),
            c \in Scalars(NumElems)}
    \* Variadic<T>, zero to MaxArgs trailing arguments
    \cup UNION {{VariadicReader(args) : args \in SeqsOf(Scalars(NumRows), k)} :
                    k \in 0 .. MaxArgs}
    \* Variadic<Array<T>>, one trailing argument
    \cup {VariadicReader(<<ArrayReader(d, lay, c)>>) :
            d \in FlatSources(NumRows), lay \in Layouts(NumRows, NumElems),
            c \in Scalars(NumElems)}

-----------------------------------------------------------------------------
(* The map column of MapViewTest: makeMapVector(mapsData), a flat column   *)
(* whose keys and values are the entries of the rows one after the other,  *)
(* read as it is or through a wrapping encoding.                           *)

\* entries of map3: {1, 4}, {10, 4}, {10, std::nullopt}
TestEntries ==
    {[first |-> 1, second |-> Optional(4)],
     [first |-> 10, second |-> Optional(4)],
     [first |-> 10, second |-> Nullopt]}

\* the entries k+1 .. k+n of a sequence
Slice(flat, k, n) == [j \in 1 .. n |-> flat[k + j]]

\* rows of map entries, MaxEntries entries in all at most
MapsData ==
    UNION {{[i \in 1 .. NumRows |-> Slice(flat, lay.offsets[i - 1], lay.lengths[i - 1])] :
                flat \in [1 .. e -> TestEntries],
                lay \in {l \in Layouts(NumRows, e) : SumTo(l.lengths, NumRows) = e}} :
           e \in 0 .. MaxEntries}

RECURSIVE Flatten(_, _)
Flatten(data, n) == IF n = 0 THEN << >> ELSE Flatten(data, n - 1) \o data[n]

\* flat, and every logical row reading the last physical row
ViewEncodings(n) == {Identity(n), [i \in 0 .. n - 1 |-> n - 1]}

\* The reader over makeMapVector(data), decoded with the given indices
MapVectorReader(data, indices) ==
    LET n == Len(data)
        flat == Flatten(data, n)
        e == Len(flat)
        lengths == [i \in 0 .. n - 1 |-> Len(data[i + 1])]
        layout == [offsets |-> [i \in 0 .. n - 1 |-> SumTo(lengths, i)],
                   lengths |-> lengths]
        top == [nulls |-> [i \in 0 .. n - 1 |-> FALSE], indices |-> indices,
                values |-> [i \in 0 .. n - 1 |-> 0], mayHaveNulls |-> FALSE]
        keys == [nulls |-> [i \in 0 .. e - 1 |-> FALSE], indices |-> Identity(e),
                 values |-> [i \in 0 .. e - 1 |-> flat[i + 1].first],
                 mayHaveNulls |-> FALSE]
        vals == [nulls |-> [i \in 0 .. e - 1 |-> ~flat[i + 1].second.has_value],
                 indices |-> Identity(e),
                 values |-> [i \in 0 .. e - 1 |-> flat[i + 1].second.value],
                 mayHaveNulls |-> \E i \in 1 .. e : ~flat[i].second.has_value]
    IN  MapReader(top, layout, ScalarReader(keys), ScalarReader(vals))

-----------------------------------------------------------------------------
(* The state machine: a reader is constructed, then its caller calls it.   *)

\* no memo slot of the tree is empty
RECURSIVE AllMemosSet(_)
AllMemosSet(r) ==
    /\ r.kind \in {"Map", "Array"} => MemoSet(r)
    /\ \A k \in 1 .. Len(r.children) : AllMemosSet(r.children[k])

\* What reading an empty memo can yield. With the DCHECKs compiled in, the
\* check fails before the read, and with no memo empty there is no such read.
Garbage == IF dcheck \/ AllMemosSet(reader) THEN {FALSE} ELSE BOOLEAN

NoCall == [op |-> "none", a |-> 0, b |-> 0, out |-> Ok(FALSE)]

\* no loop is running
NoIterator == [op |-> "none"]

Init ==
    /\ reader \in Readers
    /\ dcheck \in BOOLEAN
    /\ phase = "constructed"
    /\ mapsData = << >>
    /\ iter = NoIterator
    /\ last = NoCall

\* reader.setChildrenMayHaveNulls()
CallSetChildrenMayHaveNulls ==
    \E g \in Garbage :
        LET s == SetChildrenMayHaveNulls(reader, g)
        IN  /\ last = NoCall
            /\ reader' = s.reader
            /\ phase' = IF s.err = "none" THEN "setDone" ELSE "setThrew"
            /\ last' = [op |-> "setChildrenMayHaveNulls",
                        a |-> IF phase = "constructed" THEN 0 ELSE 1, b |-> 0,
                        out |-> [err |-> s.err, val |-> FALSE]]
            /\ UNCHANGED <<dcheck, mapsData, iter>>

\* containsNull(index) that fills the memos itself before it answers
CallContainsNull_FillsMemos ==
    \E index \in Rows, g \in Garbage :
        LET s == SetChildrenMayHaveNulls(reader, g)
        IN  /\ last = NoCall
            /\ reader' = s.reader
            /\ last' = [op |-> "containsNull", a |-> index, b |-> 0,
                        out |-> ContainsNull(s.reader, index, g)]
            /\ UNCHANGED <<dcheck, phase, mapsData, iter>>

\* reader.containsNull(index)
CallContainsNull ==
    \E index \in Rows, g \in Garbage :
        /\ last = NoCall
        /\ last' = [op |-> "containsNull", a |-> index, b |-> 0,
                    out |-> ContainsNull(reader, index, g)]
        /\ UNCHANGED <<reader, dcheck, phase, mapsData, iter>>

\* reader.containsNull(startIndex, endIndex)
CallContainsNullRange ==
    \E startIndex \in 0 .. NumRows, endIndex \in 0 .. NumRows, g \in Garbage :
        /\ last = NoCall
        /\ startIndex <= endIndex
        /\ last' = [op |-> "containsNullRange", a |-> startIndex, b |-> endIndex,
                    out |-> ContainsNullRange(reader, startIndex, endIndex, g)]
        /\ UNCHANGED <<reader, dcheck, phase, mapsData, iter>>

\* reader.mayHaveNullsRecursive()
CallMayHaveNullsRecursive ==
    \E g \in Garbage :
        /\ last = NoCall
        /\ last' = [op |-> "mayHaveNullsRecursive", a |-> 0, b |-> 0,
                    out |-> MayHaveNullsRecursive(reader, g)]
        /\ UNCHANGED <<reader, dcheck, phase, mapsData, iter>>

\* reader.isSet(offset)
CallIsSet ==
    \E offset \in Rows :
        /\ last = NoCall
        /\ last' = [op |-> "isSet", a |-> offset, b |-> 0,
                    out |-> Ok(IsSet(reader, offset))]
        /\ UNCHANGED <<reader, dcheck, phase, mapsData, iter>>

\* reader[offset], and the walks over the view it returns
CallRead ==
    \E offset \in Rows :
        /\ last = NoCall
        /\ last' = [op |-> "read", a |-> offset, b |-> 0,
                    out |-> [err |-> "none", val |-> ReadRow(reader, offset)]]
        /\ UNCHANGED <<reader, dcheck, phase, mapsData, iter>>

\* reader.readNullFree(offset): the value, or the view and its window
CallReadNullFree ==
    \E offset \in Rows :
        LET v == ReadNullFree(reader, offset)
        IN  /\ last = NoCall
            /\ last' = [op |-> "readNullFree", a |-> offset, b |-> 0,
                        out |-> [err |-> "none",
                                 val |-> IF reader.kind \in {"Map", "Array"}
                                         THEN [view |-> v.view, offset |-> v.offset_,
                                               size |-> v.size_]
                                         ELSE v]]
            /\ UNCHANGED <<reader, dcheck, phase, mapsData, iter>>

\* the call has returned or thrown; the caller goes on to its next call
Return ==
    /\ last # NoCall
    /\ last' = NoCall
    /\ UNCHANGED <<reader, dcheck, phase, mapsData, iter>>

Next ==
    \/ CallSetChildrenMayHaveNulls
    \/ CallContainsNull
    \/ CallContainsNullRange
    \/ CallMayHaveNullsRecursive
    \/ CallIsSet
    \/ CallRead
    \/ CallReadNullFree
    \/ Return

Spec == Init /\ [][Next]_vars

\* The readers of MapViewTest: a Map<int64_t, int64_t> reader over the test's
\* map column
InitView ==
    /\ mapsData \in MapsData
    /\ iter = NoIterator
    /\ \E indices \in ViewEncodings(NumRows) :
         reader = MapVectorReader(mapsData, indices)
    /\ dcheck \in BOOLEAN
    /\ phase = "constructed"
    /\ last = NoCall

SpecView == InitView /\ [][Next]_vars

-----------------------------------------------------------------------------
(* Map view elements and iterators compared with each other, as            *)
(* testCompareMapViewElement does: a map column of NumElems entries.       *)

\* entries of map3 again, now with {10, 10}
ElementEntries == TestEntries \cup {[first |-> 10, second |-> Optional(10)]}

\* rows of map entries, NumElems entries in all
ElementMapsData ==
    {[i \in 1 .. NumRows |-> Slice(flat, lay.offsets[i - 1], lay.lengths[i - 1])] :
        flat \in [1 .. NumElems -> ElementEntries],
        lay \in {l \in Layouts(NumRows, NumElems) :
                    SumTo(l.lengths, NumRows) = NumElems}}

InitElement ==
    /\ mapsData \in ElementMapsData
    /\ iter = NoIterator
    /\ reader = MapVectorReader(mapsData, Identity(NumRows))
    /\ dcheck \in BOOLEAN
    /\ phase = "constructed"
    /\ last = NoCall

\* the entries of a row, last first
Reversed(row) == [j \in 1 .. Len(row) |-> row[Len(row) + 1 - j]]

\* a second map column with the same windows: every row's entries reversed
OtherReader ==
    MapVectorReader([i \in 1 .. NumRows |-> Reversed(mapsData[i])], Identity(NumRows))

\* reader[i1][j1] == reader2[i2][j2] and !=, and the same for the iterators
\* that reached these elements from begin(); reader2 is this reader or a
\* reader over the second column
CompareElements ==
    \E i1 \in Rows, i2 \in Rows, j1 \in 0 .. NumElems - 1, j2 \in 0 .. NumElems - 1,
       other \in BOOLEAN :
        LET v1 == ReadAt(reader, i1)
            v2 == ReadAt(IF other THEN OtherReader ELSE reader, i2)
            it1 == IteratorAdvance(ViewBegin(v1), j1)
            it2 == IteratorAdvance(ViewBegin(v2), j2)
        IN  /\ last = NoCall
            /\ j1 < ViewSize(v1)
            /\ j2 < ViewSize(v2)
            /\ last' = [op |-> "compareElements", a |-> i1, b |-> i2,
                        out |-> [err |-> "none",
                                 val |-> [j1 |-> j1, j2 |-> j2, other |-> other,
                                          eq |-> ElementEquals(ViewAt(v1, j1), ViewAt(v2, j2)),
                                          ne |-> ElementNotEquals(ViewAt(v1, j1), ViewAt(v2, j2)),
                                          itEq |-> IteratorEquals(it1, it2),
                                          itNe |-> IteratorNotEquals(it1, it2),
                                          derefEq |-> ElementEquals(IteratorDeref(it1),
                                                                   IteratorDeref(it2))]]]
            /\ UNCHANGED <<reader, dcheck, phase, mapsData, iter>>

NextElement ==
    \/ CompareElements
    \/ Return

SpecElement == InitElement /\ [][NextElement]_vars

-----------------------------------------------------------------------------
(* Optional Accessors on their own: a reader of int64_t values, and a      *)
(* caller that builds accessors over it and compares or reads them, as     *)
(* MapViewTest does with the values of its map column.                     *)

\* what the value column holds where it is not null
AccessorValues == {4, 16777217}

\* a flat column of NumElems values; what the values buffer holds at a null
\* position is not specified, so anything stands there
AccessorColumns ==
    {d \in [nulls : [0 .. NumElems - 1 -> BOOLEAN], indices : {Identity(NumElems)},
            values : [0 .. NumElems - 1 -> AccessorValues], mayHaveNulls : BOOLEAN] :
        (\E i \in 0 .. NumElems - 1 : d.nulls[i]) => d.mayHaveNulls}

InitAccessor ==
    /\ reader \in {ScalarReader(d) : d \in AccessorColumns}
    /\ dcheck \in BOOLEAN
    /\ phase = "constructed"
    /\ mapsData = << >>
    /\ iter = NoIterator
    /\ last = NoCall

\* accessor1 == accessor2 and accessor1 != accessor2, for accessors at indices
\* i and k of the reader
CompareAccessors ==
    \E i \in 0 .. NumElems - 1, k \in 0 .. NumElems - 1 :
        LET a == OptionalVectorValueAccessor(reader, i)
            b == OptionalVectorValueAccessor(reader, k)
        IN  /\ last = NoCall
            /\ last' = [op |-> "compareAccessors", a |-> i, b |-> k,
                        out |-> [err |-> "none",
                                 val |-> [eq |-> AccessorEquals(a, b),
                                          ne |-> AccessorNotEquals(a, b)]]]
            /\ UNCHANGED <<reader, dcheck, phase, mapsData, iter>>

\* the native optionals an accessor is compared with
NativeOptionals ==
    {NativeOptional(type, Nullopt) : type \in {"int64_t", "float"}}
    \cup {NativeOptional("int64_t", Optional(v)) : v \in AccessorValues}
    \cup {NativeOptional("float", Optional(v)) : v \in {4, 16777216, 16777218}}

\* accessor == optional, optional == accessor and the two !=, in one build
CompareWithOptional ==
    \E i \in 0 .. NumElems - 1, o \in NativeOptionals, up \in BOOLEAN :
        LET a == OptionalVectorValueAccessor(reader, i)
        IN  /\ last = NoCall
            /\ last' = [op |-> "compareWithOptional", a |-> i, b |-> 0,
                        out |-> [err |-> "none",
                                 val |-> [o |-> o, up |-> up,
                                          eqAO |-> AccessorEqualsOptional(a, o, up),
                                          eqOA |-> OptionalEqualsAccessor(o, a, up),
                                          neAO |-> AccessorNotEqualsOptional(a, o, up),
                                          neOA |-> OptionalNotEqualsAccessor(o, a, up)]]]
            /\ UNCHANGED <<reader, dcheck, phase, mapsData, iter>>

\* std::optional<int64_t> element = accessor; then element == accessor
AssignToOptional ==
    \E i \in 0 .. NumElems - 1 :
        LET a == OptionalVectorValueAccessor(reader, i)
            o == NativeOptional("int64_t", ToOptional(a))
            up == FALSE
        IN  /\ last = NoCall
            /\ last' = [op |-> "assignToOptional", a |-> i, b |-> 0,
                        out |-> [err |-> "none",
                                 val |-> [o |-> o, up |-> up,
                                          eqAO |-> AccessorEqualsOptional(a, o, up),
                                          eqOA |-> OptionalEqualsAccessor(o, a, up),
                                          neAO |-> AccessorNotEqualsOptional(a, o, up),
                                          neOA |-> OptionalNotEqualsAccessor(o, a, up)]]]
            /\ UNCHANGED <<reader, dcheck, phase, mapsData, iter>>

\* accessor.value()
CallValue ==
    \E i \in 0 .. NumElems - 1 :
        /\ last = NoCall
        /\ last' = [op |-> "value", a |-> i, b |-> 0,
                    out |-> AccessorValue(OptionalVectorValueAccessor(reader, i))]
        /\ UNCHANGED <<reader, dcheck, phase, mapsData, iter>>

\* *accessor
CallDereference ==
    \E i \in 0 .. NumElems - 1 :
        /\ last = NoCall
        /\ last' = [op |-> "operator*", a |-> i, b |-> 0,
                    out |-> AccessorValue(OptionalVectorValueAccessor(reader, i))]
        /\ UNCHANGED <<reader, dcheck, phase, mapsData, iter>>

NextAccessor ==
    \/ CallValue
    \/ CallDereference
    \/ CompareAccessors
    \/ CompareWithOptional
    \/ AssignToOptional
    \/ Return

SpecAccessor == InitAccessor /\ [][NextAccessor]_vars

-----------------------------------------------------------------------------
(* Index-Keyed Iterators on their own: a caller that takes begin() of the  *)
(* view of one row of an Array or Map reader, moves the iterator with ++it *)
(* or it++ until it meets end(), and meanwhile compares it with iterators  *)
(* over other rows of the same column or of a second column.               *)

\* the Array<T> and Map<K, V> readers whose rows are iterated: every row
\* holds a container, under each encoding and each layout of the windows
IterableReaders ==
    {ArrayReader(d, lay, c) :
        d \in {s \in Sources(NumRows, Encodings(NumRows)) : ~s.mayHaveNulls},
        lay \in Layouts(NumRows, NumElems), c \in Scalars(NumElems)}
    \cup {MapReader(d, lay, kv[1], kv[2]) :
        d \in {s \in Sources(NumRows, Encodings(NumRows)) : ~s.mayHaveNulls},
        lay \in Layouts(NumRows, NumElems), kv \in KeysAndValues(NumElems)}

InitIterator ==
    /\ reader \in IterableReaders
    /\ dcheck \in BOOLEAN
    /\ phase = "constructed"
    /\ mapsData = << >>
    /\ iter = NoIterator
    /\ last = NoCall

\* a column whose null rows are the rows that are not null in d
Inverted(d) == [d EXCEPT !.nulls = [i \in DOMAIN d.nulls |-> ~d.nulls[i]],
                         !.mayHaveNulls = TRUE]

\* a second container column with the windows of r and other elements
OtherContainer(r) ==
    [r EXCEPT !.children =
        [k \in 1 .. Len(r.children) |->
            ScalarReader(Inverted(r.children[k].decoded))]]

\* auto it = reader[row].begin(), end = reader[row].end();
TakeBegin ==
    \E row \in Rows :
        /\ last = NoCall
        /\ iter.op = "none"
        /\ iter' = [op |-> "begin", row |-> row, n |-> 0,
                    it |-> ViewBegin(ReadAt(reader, row)),
                    end |-> ViewEnd(ReadAt(reader, row)),
                    returned |-> ViewBegin(ReadAt(reader, row))]
        /\ UNCHANGED <<reader, dcheck, phase, mapsData, last>>

\* it != end, then ++it; n counts the increments since begin()
PreIncrement ==
    /\ last = NoCall
    /\ iter.op # "none"
    /\ IteratorNotEquals(iter.it, iter.end)
    /\ iter' = [iter EXCEPT !.op = "pre", !.n = @ + 1,
                            !.it = IteratorPreIncrement(iter.it).it,
                            !.returned = IteratorPreIncrement(iter.it).returned]
    /\ UNCHANGED <<reader, dcheck, phase, mapsData, last>>

\* it != end, then it++
PostIncrement ==
    /\ last = NoCall
    /\ iter.op # "none"
    /\ IteratorNotEquals(iter.it, iter.end)
    /\ iter' = [iter EXCEPT !.op = "post", !.n = @ + 1,
                            !.it = IteratorPostIncrement(iter.it).it,
                            !.returned = IteratorPostIncrement(iter.it).returned]
    /\ UNCHANGED <<reader, dcheck, phase, mapsData, last>>

\* it != end is false: the loop is over and the iterators go out of scope
LeaveLoop ==
    /\ last = NoCall
    /\ iter.op # "none"
    /\ ~IteratorNotEquals(iter.it, iter.end)
    /\ iter' = NoIterator
    /\ UNCHANGED <<reader, dcheck, phase, mapsData, last>>

\* it == it2, it != it2 and it < it2, where it2 is k increments after
\* begin() of row2 of this reader or of a reader over the second column
CompareIterators ==
    \E row2 \in Rows, k \in 0 .. NumElems, other \in BOOLEAN :
        LET v2 == ReadAt(IF other THEN OtherContainer(reader) ELSE reader, row2)
            it2 == IteratorAdvance(ViewBegin(v2), k)
        IN  /\ last = NoCall
            /\ iter.op # "none"
            /\ k <= ViewSize(v2)
            /\ last' = [op |-> "compareIterators", a |-> row2, b |-> k,
                        out |-> [err |-> "none",
                                 val |-> [other |-> other,
                                          eq |-> IteratorEquals(iter.it, it2),
                                          ne |-> IteratorNotEquals(iter.it, it2),
                                          lt |-> IteratorLess(iter.it, it2),
                                          gt |-> IteratorLess(it2, iter.it)]]]
            /\ UNCHANGED <<reader, dcheck, phase, mapsData, iter>>

NextIterator ==
    \/ TakeBegin
    \/ PreIncrement
    \/ PostIncrement
    \/ LeaveLoop
    \/ CompareIterators
    \/ Return

SpecIterator == InitIterator /\ [][NextIterator]_vars

\* for (auto it = view.begin(); it != view.end(); ++it) {} over one row after
\* another. A running loop takes its next step: while it != end holds, ++it
\* is executed.
NextLoop ==
    \/ TakeBegin
    \/ PreIncrement
    \/ LeaveLoop

SpecLoop == InitIterator /\ [][NextLoop]_vars /\ WF_vars(PreIncrement)

-----------------------------------------------------------------------------
(* What the columns hold, read off the data without any memo.              *)

\* the child positions of logical row i of a Map or Array reader
Window(r, i) ==
    LET decodedIndex == indexOf(r.decoded, i)
    IN  r.offsets[decodedIndex] ..
            r.offsets[decodedIndex] + r.lengths[decodedIndex] - 1

\* row i of r is null, or something inside row i is null
RECURSIVE HoldsNull(_, _)
HoldsNull(r, i) ==
    CASE r.kind \in {"Scalar", "Generic"} -> r.decoded.nulls[i]
      [] r.kind \in {"Map", "Array"} ->
            \/ r.decoded.nulls[i]
            \/ \E k \in 1 .. Len(r.children) :
                 \E j \in Window(r, i) : HoldsNull(r.children[k], j)
      [] r.kind = "Row" ->
            \/ r.decoded.nulls[i]
            \/ \E k \in 1 .. Len(r.children) :
                 HoldsNull(r.children[k], r.decoded.indices[i])
      [] r.kind = "Variadic" ->
            \E k \in 1 .. Len(r.children) : HoldsNull(r.children[k], i)

RECURSIVE KindsWithin(_, _)
KindsWithin(r, kinds) ==
    /\ r.kind \in kinds
    /\ \A k \in 1 .. Len(r.children) : KindsWithin(r.children[k], kinds)

NullQueries == {"containsNull", "containsNullRange", "mayHaveNullsRecursive"}

-----------------------------------------------------------------------------
(* C1 as stated: on a scalar, Map, Array, Row or Variadic reader on which  *)
(* setChildrenMayHaveNulls() was never called, containsNull(index),        *)
(* containsNull(start, end) and mayHaveNullsRecursive() end in an          *)
(* assertion failure and never return a value.                             *)
C1_AssertsOnEveryShape ==
    (/\ phase = "constructed"
     /\ reader.kind \in {"Scalar", "Map", "Array", "Row", "Variadic"}
     /\ last.op \in NullQueries)
        => last.out.err = "dcheck"

(* C1 amended: on a Map or Array reader on which                           *)
(* setChildrenMayHaveNulls() was never called, in a build with the DCHECKs *)
(* compiled in, containsNull(index), containsNull(start, end) with         *)
(* start < end and mayHaveNullsRecursive() end in an assertion failure     *)
(* and never return a value; a scalar reader never fails them.             *)
C1_AssertsOnMapAndArray ==
    /\ (/\ phase = "constructed"
        /\ dcheck
        /\ reader.kind \in {"Map", "Array"}
        /\ last.op \in NullQueries
        /\ last.op = "containsNullRange" => last.a < last.b)
           => last.out.err = "dcheck"
    /\ (reader.kind = "Scalar" /\ last.op \in NullQueries)
           => last.out.err = "none"

C1_Witness ==
    /\ phase = "constructed"
    /\ dcheck
    /\ reader.kind = "Map"
    /\ last.op = "containsNull"
    /\ last.out.err = "dcheck"

(* C2: in a tree of scalar, Map, Array and Variadic readers, after         *)
(* setChildrenMayHaveNulls(), when mayHaveNullsRecursive() returns false   *)
(* then containsNull(i) is false for every row i and no row holds a null   *)
(* map key, map value or array element.                                    *)
C2_NullFreeFastPathSound ==
    (/\ phase = "setDone"
     /\ KindsWithin(reader, {"Scalar", "Map", "Array", "Variadic"})
     /\ MayHaveNullsRecursive(reader, FALSE) = Ok(FALSE))
        => \A i \in Rows :
             /\ ContainsNull(reader, i, FALSE) = Ok(FALSE)
             /\ ~HoldsNull(reader, i)

C2_Witness ==
    /\ phase = "setDone"
    /\ reader.kind = "Map"
    /\ \E i \in Rows : Window(reader, i) # {}
    /\ last.op = "mayHaveNullsRecursive"
    /\ last.out = Ok(FALSE)

(* C3 as stated: after setChildrenMayHaveNulls(), mayHaveNullsRecursive()  *)
(* returns true if and only if some row of the batch is null or holds a    *)
(* null descendant.                                                        *)
C3_TrueIffSomeRowHoldsNull ==
    (phase = "setDone" /\ last.op = "mayHaveNullsRecursive")
        => last.out = Ok(\E i \in Rows : HoldsNull(reader, i))

(* C3 amended: after setChildrenMayHaveNulls() has returned,               *)
(* mayHaveNullsRecursive() returns true if some row of the batch is null   *)
(* or holds a null descendant; it may also return true when no row does.   *)
C3_TrueIfSomeRowHoldsNull ==
    (/\ phase = "setDone"
     /\ last.op = "mayHaveNullsRecursive"
     /\ \E i \in Rows : HoldsNull(reader, i))
        => last.out = Ok(TRUE)

C3_Witness ==
    /\ phase = "setDone"
    /\ last.op = "mayHaveNullsRecursive"
    /\ reader.kind = "Array"
    /\ \E i \in Rows : ~reader.decoded.nulls[i] /\ HoldsNull(reader, i)
    /\ last.out = Ok(TRUE)

(* C4: after setChildrenMayHaveNulls(), a Map reader's containsNull(i) is  *)
(* true exactly when row i is null, or the keys' memo is true and a key in *)
(* the window of index(i) holds a null, or the values' memo is true and a  *)
(* value in that window holds a null.                                      *)
C4_MapContainsNull ==
    (reader.kind = "Map" /\ MemoSet(reader) /\ last.op = "containsNull")
        => last.out =
             Ok(\/ reader.decoded.nulls[last.a]
                \/ /\ reader.keysMayHaveNulls_.value
                   /\ \E j \in Window(reader, last.a) :
                        HoldsNull(keyReader_(reader), j)
                \/ /\ reader.valuesMayHaveNulls_.value
                   /\ \E j \in Window(reader, last.a) :
                        HoldsNull(valReader_(reader), j))

C4_Witness ==
    /\ reader.kind = "Map"
    /\ MemoSet(reader)
    /\ last.op = "containsNull"
    /\ ~reader.decoded.nulls[last.a]
    /\ reader.decoded.indices[last.a] # last.a
    /\ ~reader.keysMayHaveNulls_.value
    /\ last.out = Ok(TRUE)

(* C5: after setChildrenMayHaveNulls(), an Array reader's containsNull(i)  *)
(* is true exactly when row i is null, or the elements' memo is true and   *)
(* an element in the window of index(i) holds a null; a row that is not    *)
(* null and has an empty window reports false.                             *)
C5_ArrayContainsNull ==
    (reader.kind = "Array" /\ MemoSet(reader) /\ last.op = "containsNull")
        => /\ last.out =
                Ok(\/ reader.decoded.nulls[last.a]
                   \/ /\ reader.valuesMayHaveNulls_.value
                      /\ \E j \in Window(reader, last.a) :
                           HoldsNull(childReader_(reader), j))
           /\ (~reader.decoded.nulls[last.a] /\ Window(reader, last.a) = {})
                => last.out = Ok(FALSE)

C5_Witness ==
    /\ reader.kind = "Array"
    /\ MemoSet(reader)
    /\ last.op = "containsNull"
    /\ ~reader.decoded.nulls[last.a]
    /\ Window(reader, last.a) = {}
    /\ reader.valuesMayHaveNulls_.value
    /\ \E i \in Rows : i # last.a /\ ContainsNull(reader, i, FALSE) = Ok(TRUE)

(* C6: a Row reader's containsNull(i) is true exactly when row i is null   *)
(* or a field reports containsNull at index(i); the fields are tested in   *)
(* declaration order and none is tested after the first that reports a     *)
(* null, so a Generic field behind a scalar field that is null at index(i) *)
(* is never asked.                                                         *)
C6_RowContainsNull ==
    (reader.kind = "Row" /\ last.op = "containsNull")
        => LET i == last.a
               decodedIndex == reader.decoded.indices[i]
               own == reader.decoded.nulls[i]
               first == reader.children[1]
               second == reader.children[2]
           IN  /\ phase = "setDone"
                    => last.out =
                         Ok(\/ own
                            \/ \E k \in 1 .. Len(reader.children) :
                                 HoldsNull(reader.children[k], decodedIndex))
               /\ second.kind = "Generic"
                    => last.out =
                         IF own \/ first.decoded.nulls[decodedIndex]
                         THEN Ok(TRUE) ELSE Fail("unsupported")

C6_Witness ==
    /\ reader.kind = "Row"
    /\ reader.children[2].kind = "Generic"
    /\ last.op = "containsNull"
    /\ ~reader.decoded.nulls[last.a]
    /\ reader.decoded.indices[last.a] # last.a
    /\ last.out = Ok(TRUE)

C6_WitnessAfterSet ==
    /\ reader.kind = "Row"
    /\ phase = "setDone"
    /\ reader.children[2].kind = "Array"
    /\ last.op = "containsNull"
    /\ ~reader.children[1].decoded.nulls[reader.decoded.indices[last.a]]
    /\ last.out = Ok(TRUE)

(* C7: a Variadic reader's isSet(i) is true for every row i; its           *)
(* containsNull(i) is true exactly when one of its child readers reports   *)
(* containsNull(i), so false without trailing arguments; its               *)
(* mayHaveNullsRecursive() is the OR of the children's.                    *)
C7_Variadic ==
    reader.kind = "Variadic"
        => /\ last.op = "isSet" => last.out = Ok(TRUE)
           /\ (last.op = "containsNull" /\ AllMemosSet(reader))
                => last.out =
                     Ok(\E k \in 1 .. Len(reader.children) :
                          ContainsNull(reader.children[k], last.a, FALSE).val)
           /\ (last.op = "mayHaveNullsRecursive" /\ AllMemosSet(reader))
                => last.out =
                     Ok(\E k \in 1 .. Len(reader.children) :
                          MayHaveNullsRecursive(reader.children[k], FALSE).val)

C7_Witness ==
    /\ reader.kind = "Variadic"
    /\ Len(reader.children) = 2
    /\ last.op = "containsNull"
    /\ ~ContainsNull(reader.children[1], last.a, FALSE).val
    /\ last.out = Ok(TRUE)

(* C8: on a Generic reader containsNull(index), containsNull(start, end),  *)
(* mayHaveNullsRecursive() and setChildrenMayHaveNulls() fail with the     *)
(* unsupported error whatever the arguments and the calls made before;     *)
(* isSet and operator[] return.                                            *)
C8_GenericUnsupported ==
    reader.kind = "Generic"
        => /\ last.op \in NullQueries \cup {"setChildrenMayHaveNulls"}
                => last.out = Fail("unsupported")
           /\ last.op = "isSet"
                => last.out = Ok(~reader.decoded.nulls[last.a])
           /\ last.op = "read"
                => /\ last.out.err = "none"
                   /\ last.out.val.view = "GenericView"
                   /\ last.out.val.index_ = reader.decoded.indices[last.a]

C8_Witness ==
    /\ reader.kind = "Generic"
    /\ phase = "setThrew"
    /\ last.op = "containsNullRange"
    /\ last.a = last.b
    /\ last.out = Fail("unsupported")

(* C9: a setChildrenMayHaveNulls() call made after one has returned leaves *)
(* every memo of the reader tree as it was.                                *)
C9_SetIdempotent ==
    [][(phase = "setDone" /\ last'.op = "setChildrenMayHaveNulls")
          => (reader' = reader /\ phase' = "setDone")]_vars

C9_Witness ==
    /\ phase = "setDone"
    /\ last.op = "setChildrenMayHaveNulls"
    /\ last.a = 1
    /\ reader.kind = "Array"
    /\ childReader_(reader).kind = "Array"
    /\ reader.valuesMayHaveNulls_ = Some(TRUE)
    /\ childReader_(reader).valuesMayHaveNulls_ = Some(FALSE)

(* C10: for every row i the Map view reader[i] has size() equal to the     *)
(* number of entries stored for that row, and both the indexed loop and    *)
(* the range-for loop see the stored entries one by one in storage order:  *)
(* the j-th key, and the j-th value or nullopt when it is null; duplicate  *)
(* keys are neither removed nor reordered.                                 *)
C10_MapViewInStorageOrder ==
    last.op = "read"
        => LET stored == mapsData[reader.decoded.indices[last.a] + 1]
           IN  /\ last.out.val.size = Len(stored)
               /\ last.out.val.indexed = stored
               /\ last.out.val.iterated = stored

C10_Witness ==
    /\ last.op = "read"
    /\ reader.decoded.indices[last.a] # last.a
    /\ last.out.val.size = 3
    /\ \A j \in 1 .. 3 : last.out.val.iterated[j].first = 10
    /\ last.out.val.iterated[1].second = Optional(4)
    /\ last.out.val.iterated[2].second = Nullopt
    /\ last.out.val.iterated[3].second = Optional(4)

C12_WindowOfPhysicalIndex ==
    (last.op = "read" /\ reader.kind \in {"Map", "Array"})
        => LET index == reader.decoded.indices[last.a]
               seen == last.out.val
           IN  /\ seen.offset = reader.offsets[index]
               /\ seen.size = reader.lengths[index]
               /\ DOMAIN seen.at = 0 .. reader.lengths[index] - 1
               /\ \A j \in DOMAIN seen.at :
                     seen.at[j] = {reader.offsets[index] + j}
               /\ \A i \in Rows :
                     reader.decoded.indices[i] = index
                        => ReadRow(reader, i) = seen

C12_Witness ==
    /\ last.op = "read"
    /\ reader.kind = "Array"
    /\ last.a = 0
    /\ \A i \in Rows : reader.decoded.indices[i] = NumRows - 1
    /\ reader.offsets[0] = 0
    /\ last.out.val.offset = 1
    /\ last.out.val.size = 1
    /\ last.out.val.at[0] = {1}

\* has_value() of what a caller observed of an array element or a map entry
Present(seen) == IF "first" \in DOMAIN seen THEN seen.second.has_value
                 ELSE seen.has_value

\* the reader of the elements an Array or Map view hands out accessors over
ElementReader(r) == IF r.kind = "Map" THEN valReader_(r) ELSE childReader_(r)

(* C13: an Optional Accessor over child reader R at index k has            *)
(* has_value() = R.isSet(k): where R.isSet(k) is false the element is      *)
(* absent whether it was reached by view[j], through an iterator or as the *)
(* range-for variable.                                                     *)
C13_HasValueIsIsSet ==
    (last.op = "read" /\ reader.kind \in {"Map", "Array"})
        => LET seen == last.out.val
               R == ElementReader(reader)
           IN  \A j \in 0 .. seen.size - 1 :
                  LET set == ~R.decoded.nulls[seen.offset + j]
                  IN  /\ IsSet(R, seen.offset + j) = set
                      /\ Present(seen.indexed[j + 1]) = set
                      /\ Present(seen.iterated[j + 1]) = set
                      /\ Present(seen.ranged[j + 1]) = set

C13_Witness ==
    /\ last.op = "read"
    /\ reader.kind = "Array"
    /\ last.out.val.size = 2
    /\ childReader_(reader).decoded.nulls[last.out.val.offset + 1]
    /\ ~childReader_(reader).decoded.nulls[last.out.val.offset]
    /\ ~Present(last.out.val.indexed[2])
    /\ ~Present(last.out.val.iterated[2])
    /\ ~Present(last.out.val.ranged[2])
    /\ Present(last.out.val.ranged[1])

(* C14: two Optional Accessors compare equal when both are absent, unequal *)
(* when exactly one is absent, and when both are present equal exactly     *)
(* when their values are equal; != is the negation of ==; the indices of   *)
(* the accessors play no part.                                             *)
C14_AccessorEquality ==
    last.op = "compareAccessors"
        => LET d == reader.decoded
               pa == ~d.nulls[last.a]
               pb == ~d.nulls[last.b]
               equal == IF ~pa /\ ~pb THEN TRUE
                        ELSE IF pa # pb THEN FALSE
                        ELSE d.values[last.a] = d.values[last.b]
           IN  /\ last.out.val.eq = equal
               /\ last.out.val.ne = ~equal

C14_Witness ==
    /\ last.op = "compareAccessors"
    /\ last.a # last.b
    /\ ~reader.decoded.nulls[last.a]
    /\ ~reader.decoded.nulls[last.b]
    /\ reader.decoded.values[last.a] = reader.decoded.values[last.b]
    /\ last.out.val.eq
    /\ dcheck

C14_WitnessBothAbsent ==
    /\ last.op = "compareAccessors"
    /\ last.a # last.b
    /\ reader.decoded.nulls[last.a]
    /\ reader.decoded.nulls[last.b]
    /\ last.out.val.eq

\* the comparisons of an accessor with a native optional
OptionalComparisons == {"compareWithOptional", "assignToOptional"}

\* == is symmetric, != negates it, and absence decides before any value
SymmetricAndAbsenceFirst ==
    LET r == last.out.val
        pa == ~reader.decoded.nulls[last.a]
        po == r.o.opt.has_value
    IN  /\ r.eqAO = r.eqOA
        /\ r.neAO = r.neOA
        /\ r.neAO = ~r.eqAO
        /\ (~pa /\ ~po) => r.eqAO
        /\ (pa # po) => ~r.eqAO
        /\ last.op = "assignToOptional" => (r.eqAO /\ po = pa)

C15_WitnessAssigned ==
    /\ last.op = "assignToOptional"
    /\ reader.decoded.nulls[last.a]
    /\ last.out.val.o.opt = Nullopt
    /\ last.out.val.eqAO

C15_WitnessLossy ==
    /\ last.op = "compareWithOptional"
    /\ ~reader.decoded.nulls[last.a]
    /\ reader.decoded.values[last.a] = 16777217
    /\ last.out.val.o = NativeOptional("float", Optional(16777216))
    /\ last.out.val.eqAO

\* the number of entries stored before row i of the map column
StoredBefore(i) == SumTo([k \in 0 .. NumRows - 1 |-> Len(mapsData[k + 1])], i)

(* C16: two Map view Elements are equal exactly when their keys are equal  *)
(* and their values are equal (both absent, or both present and equal),    *)
(* whatever their positions and rows; two iterators are equal exactly when *)
(* their indices are equal, whatever the elements they point at hold.      *)
C16_ElementsByValueIteratorsByIndex ==
    last.op = "compareElements"
        => LET r == last.out.val
               x == mapsData[last.a + 1][r.j1 + 1]
               row2 == mapsData[last.b + 1]
               y == IF r.other THEN Reversed(row2)[r.j2 + 1] ELSE row2[r.j2 + 1]
               same == x.first = y.first /\ x.second = y.second
               sameIndex == StoredBefore(last.a) + r.j1 = StoredBefore(last.b) + r.j2
           IN  /\ r.eq = same
               /\ r.ne = ~same
               /\ r.derefEq = same
               /\ r.itEq = sameIndex
               /\ r.itNe = ~sameIndex

C16_Witness ==
    /\ last.op = "compareElements"
    /\ last.a # last.b
    /\ ~last.out.val.other
    /\ last.out.val.eq
    /\ ~last.out.val.itEq
    /\ mapsData[last.a + 1][last.out.val.j1 + 1].second = Optional(10)

C16_WitnessSameIndex ==
    /\ last.op = "compareElements"
    /\ last.out.val.other
    /\ last.out.val.itEq
    /\ ~last.out.val.eq
    /\ last.out.val.ne

(* C17 as stated: value() and operator* of an Optional Accessor whose      *)
(* has_value() is false end in an assertion failure and never return a     *)
(* value; when has_value() is true both return the reader's value at the   *)
(* accessor's index.                                                       *)
C17_AbsentNeverReturns ==
    last.op \in {"value", "operator*"}
        => IF reader.decoded.nulls[last.a]
           THEN last.out.err = "dcheck"
           ELSE last.out = [err |-> "none", val |-> reader.decoded.values[last.a]]

(* C17 amended: the assertion is a DCHECK. In a build that compiles it in, *)
(* value() and operator* of an absent accessor fail it and return nothing; *)
(* in a build without it they return whatever the reader holds at the      *)
(* index. A present accessor gives the reader's value in both.             *)
C17_AbsentFailsTheDcheck ==
    last.op \in {"value", "operator*"}
        => IF reader.decoded.nulls[last.a] /\ dcheck
           THEN last.out.err = "dcheck"
           ELSE last.out = [err |-> "none", val |-> reader.decoded.values[last.a]]

C17_Witness ==
    /\ last.op = "value"
    /\ reader.decoded.nulls[last.a]
    /\ dcheck
    /\ last.out.err = "dcheck"

C17_WitnessDereference ==
    /\ last.op = "operator*"
    /\ ~reader.decoded.nulls[last.a]
    /\ last.out = [err |-> "none", val |-> 16777217]

(* C18: ArrayView::mayHaveNulls() returns true if any of the array views   *)
(* in the vector might have a null element.                                *)
C18_TrueIfSomeViewHoldsNull ==
    (last.op = "read" /\ reader.kind = "Array")
        => ((\E i \in Rows : \E k \in Window(reader, i) :
                childReader_(reader).decoded.nulls[k])
              => last.out.val.mayHaveNulls)

C18_Witness ==
    /\ last.op = "read"
    /\ reader.kind = "Array"
    /\ last.out.val.size = 2
    /\ ~Present(last.out.val.indexed[1])
    /\ ~last.out.val.mayHaveNulls

\* every Map and Array node of the tree has its memos set, each to what the
\* child reader's mayHaveNullsRecursive() returns
RECURSIVE MemosAgree(_)
MemosAgree(r) ==
    /\ r.kind = "Map"
         => /\ r.keysMayHaveNulls_ = Some(MayHaveNullsRecursive(keyReader_(r), FALSE).val)
            /\ MayHaveNullsRecursive(keyReader_(r), FALSE).err = "none"
    /\ r.kind \in {"Map", "Array"}
         => /\ r.valuesMayHaveNulls_
                  = Some(MayHaveNullsRecursive(r.children[Len(r.children)], FALSE).val)
            /\ MayHaveNullsRecursive(r.children[Len(r.children)], FALSE).err = "none"
    /\ \A k \in 1 .. Len(r.children) : MemosAgree(r.children[k])

(* C19: once setChildrenMayHaveNulls() has returned on the root of a tree  *)
(* of scalar, Map, Array, Row and Variadic readers, every Map and Array    *)
(* node of the tree, those below Row and Variadic nodes too, has its memo  *)
(* set to its child's mayHaveNullsRecursive(), and no later containsNull   *)
(* or mayHaveNullsRecursive call on the root fails the memo assertion.     *)
C19_EveryMemoSet ==
    /\ KindsWithin(reader, {"Scalar", "Map", "Array", "Row", "Variadic"})
            /\ last.op = "setChildrenMayHaveNulls"
         => phase = "setDone"
    /\ phase = "setDone"
         => /\ AllMemosSet(reader)
            /\ MemosAgree(reader)
            /\ last.op \in NullQueries => last.out.err = "none"

C19_Witness ==
    /\ phase = "setDone"
    /\ dcheck
    /\ reader.kind = "Row"
    /\ reader.children[2].kind = "Array"
    /\ reader.children[2].valuesMayHaveNulls_ = Some(TRUE)
    /\ last.op = "containsNull"
    /\ last.out = Ok(TRUE)

C19_WitnessVariadic ==
    /\ phase = "setDone"
    /\ reader.kind = "Variadic"
    /\ Len(reader.children) = 1
    /\ reader.children[1].kind = "Array"
    /\ reader.children[1].valuesMayHaveNulls_ = Some(FALSE)
    /\ last.op = "mayHaveNullsRecursive"

(* C20: the memo slots of a reader tree are written by                     *)
(* setChildrenMayHaveNulls() alone: operator[], readNullFree, isSet,       *)
(* containsNull and mayHaveNullsRecursive, and the walks over the views    *)
(* they return, leave every memo, set or unset, as it was.                 *)
C20_OnlySetWritesMemos ==
    [][last'.op # "setChildrenMayHaveNulls" => reader' = reader]_vars

C20_Witness ==
    /\ phase = "constructed"
    /\ reader.kind = "Map"
    /\ reader.keysMayHaveNulls_ = Unset
    /\ reader.valuesMayHaveNulls_ = Unset
    /\ ~dcheck
    /\ last.op = "containsNull"
    /\ last.out.err = "none"

C20_WitnessAfterSet ==
    /\ phase = "setDone"
    /\ reader.kind = "Map"
    /\ reader.keysMayHaveNulls_ = Some(FALSE)
    /\ reader.valuesMayHaveNulls_ = Some(TRUE)
    /\ last.op = "readNullFree"
    /\ last.out.val.size = 2

-----------------------------------------------------------------------------
(* Index-Keyed Iterators.                                                  *)

\* the child position k places into the window of logical row `row`
PositionOf(row, k) == reader.offsets[indexOf(reader.decoded, row)] + k

(* C21: two Index-Keyed Iterators are compared by the positions they stand *)
(* at and by nothing else: it == it2 exactly when the two positions are    *)
(* the same, it != it2 exactly when it == it2 is false, and it < it2       *)
(* exactly when the position of it is the smaller one, whatever stands at  *)
(* the positions and whichever column the iterators walk.                  *)
C21_ComparedByIndex ==
    last.op = "compareIterators" =>
        LET i1 == PositionOf(iter.row, iter.n)
            i2 == PositionOf(last.a, last.b)
            c == last.out.val
        IN  /\ c.eq = (i1 = i2)
            /\ c.ne = ~c.eq
            /\ c.lt = (i1 < i2)
            /\ c.gt = (i2 < i1)

\* equal iterators over two columns that hold different things at the
\* position: a value in one, a null in the other
C21_Witness ==
    /\ last.op = "compareIterators"
    /\ last.out.val.other
    /\ last.out.val.eq
    /\ iter.op = "pre"
    /\ iter.row # last.a
    /\ IteratorNotEquals(iter.it, iter.end)
    /\ reader.kind = "Array"
    /\ ~HoldsNull(reader.children[1], iter.it.index_)

\* unequal, ordered iterators over one column whose elements are all equal
C21_WitnessEqualValues ==
    /\ last.op = "compareIterators"
    /\ ~last.out.val.other
    /\ last.out.val.ne
    /\ last.out.val.lt
    /\ ~last.out.val.gt
    /\ reader.kind = "Map"
    /\ \A k \in 1 .. 2 : \A j \in 0 .. NumElems - 1 :
            ~HoldsNull(reader.children[k], j)

(* C22: ++it moves the iterator on by exactly one position and yields the  *)
(* iterator as moved; it++ moves the iterator on by exactly one position   *)
(* too, and yields an iterator standing where it stood before the call.    *)
C22_IncrementByOne ==
    [][/\ PreIncrement =>
            /\ iter'.it.index_ = iter.it.index_ + 1
            /\ iter'.returned = iter'.it
       /\ PostIncrement =>
            /\ iter'.it.index_ = iter.it.index_ + 1
            /\ iter'.returned.index_ = iter.it.index_
            /\ iter'.returned = iter.it]_vars

\* after it++ on an iterator over a map
C22_Witness ==
    /\ iter.op = "post"
    /\ reader.kind = "Map"
    /\ iter.n = 2
    /\ iter.returned.index_ = iter.it.index_ - 1

\* after ++it on an iterator over an array
C22_WitnessPre ==
    /\ iter.op = "pre"
    /\ reader.kind = "Array"
    /\ iter.n = 1
    /\ iter.returned.index_ = iter.it.index_

\* the map elements the caller holds: the one the iterator wraps, the one
\* end() wraps and the one the last ++ returned
HeldElements ==
    IF iter.op # "none" /\ reader.kind = "Map"
    THEN {IteratorDeref(iter.it), IteratorDeref(iter.end),
          IteratorDeref(iter.returned)}
    ELSE {}

(* C23: a map Element, as constructed and after any number of              *)
(* incrementIndex() calls made on it by ++it or it++, has one index: its   *)
(* own index, the index of its key accessor and the index of its value     *)
(* accessor are equal.                                                     *)
C23_ElementIndicesAgree ==
    \A e \in HeldElements :
        /\ e.first.index_ = e.index_
        /\ e.second.index_ = e.index_

\* an Element that was incremented twice, the second time by it++
C23_Witness ==
    /\ reader.kind = "Map"
    /\ iter.op = "post"
    /\ iter.n = 2
    /\ iter.returned.second.index_ = iter.it.second.index_ - 1
    /\ iter.it.first.index_ = PositionOf(iter.row, 2)

\* an Element of a window that does not start at 0, incremented by ++it
C23_WitnessOffset ==
    /\ reader.kind = "Map"
    /\ iter.op = "pre"
    /\ iter.n = 1
    /\ iter.it.index_ = 2
    /\ iter.it.second.index_ = 2

\* the number of elements of logical row `row`, as the column stores it
SizeOf(row) == reader.lengths[indexOf(reader.decoded, row)]

\* a loop is running; a running loop has met end()
LoopRunning == iter.op # "none"
LoopAtEnd == iter.op # "none" /\ IteratorEquals(iter.it, iter.end)

\* after n increments the iterator equals end() if n is the size of the
\* view and differs from end() if n is smaller; n never passes the size
EndAfterSize ==
    LoopRunning =>
        /\ iter.n <= SizeOf(iter.row)
        /\ IteratorEquals(iter.it, iter.end) <=> iter.n = SizeOf(iter.row)
        /\ IteratorNotEquals(iter.it, iter.end) <=> iter.n < SizeOf(iter.row)

(* C24: over an Array or Map view of size n, an iterator started at        *)
(* begin() equals end() after exactly n pre-increments and differs from    *)
(* end() after fewer, so the loop                                          *)
(*   for (it = begin(); it != end(); ++it)                                 *)
(* ends, and ends after exactly n iterations; over an empty view begin()   *)
(* equals end() and the body never runs.                                   *)
C24_LoopEndsAfterSize ==
    /\ []EndAfterSize
    /\ LoopRunning ~> LoopAtEnd

\* a loop over a map of two entries that has met end()
C24_Witness ==
    /\ reader.kind = "Map"
    /\ iter.op = "pre"
    /\ iter.n = 2
    /\ SizeOf(iter.row) = 2
    /\ IteratorEquals(iter.it, iter.end)

\* begin() of an empty array that does not start at 0
C24_WitnessEmpty ==
    /\ reader.kind = "Array"
    /\ iter.op = "begin"
    /\ SizeOf(iter.row) = 0
    /\ iter.it.index_ > 0
    /\ IteratorEquals(iter.it, iter.end)

====
